---------------------------- MODULE Spec2Model ----------------------------
(***************************************************************************)
(* eBay UK camera-lot monitor (src/monitor.py).                            *)
(*                                                                         *)
(* Four specifications over one set of variables:                          *)
(*   SpecRun    one run of main(): load_seen, the fetch loop over the      *)
(*              search URLs, save_seen, ranking, tg_send per alert, from   *)
(*              any seen.json;                                             *)
(*   Spec       the same, run after run on one persisted seen.json;        *)
(*   SpecSeen   the seen cache on its own: seen.add, save_seen, load_seen  *)
(*              with the order of insertion recorded;                      *)
(*   SpecScore  the pure scorer: score_listing / extract_quantity /        *)
(*              hard_reject applied to titles from a bounded set.          *)
(*                                                                         *)
(* A title is a sequence of one-character strings, so that lower(),        *)
(* substring tests and the regular expressions are computed character by   *)
(* character as Python computes them.                                      *)
(***************************************************************************)
EXTENDS Integers, Sequences, FiniteSets, TLC

VARIABLES
  \* ---- main() and its environment ----
  file,      \* seen.json on disk
  secrets,   \* TELEGRAM_BOT_TOKEN and TELEGRAM_CHAT_ID in os.environ:
             \* "unread" until tg_send first looks, then "set" or "missing"
  pc,        \* position of main(): "start", "fetch", "loop", "save", "send",
             \* "done" (summary printed), "crashed" (an exception left main)
  seen,      \* main's local set `seen`
  alerts,    \* main's local list `alerts` of <<score, listing>>
  urlIdx,    \* index in `urls` of the source being processed
  left,      \* entries of `results` the loop of line 299 has yet to visit
  sendIdx,   \* index in `alerts` of the next alert to hand to tg_send
  run,       \* number of the current run of main()
  \* ---- observations of the current run (history) ----
  loaded,    \* what load_seen returned
  fetched,   \* ids returned by successful fetches
  failed,    \* indices of the sources whose fetch raised
  pool,      \* `alerts` as it was before sort and truncation
  saveRes,   \* "none", "ok", "raised"
  sent,      \* calls of tg_send so far: [id, score, qty, outcome, printed]
  scoreCalls,\* per id, the calls score_listing has had for a listing with it
  unmarked,  \* ids handed to score_listing while not in `seen`
  repeated,  \* a fetch returned an id that an earlier listing of the run had
  insOrder,  \* the ids of `seen` in the order they were inserted
  \* ---- observations of the previous run ----
  prevFetched, prevSaveRes,
  \* ---- a second process running main() at the same time (SpecOverlap) ----
  me,        \* the process whose locals the variables above hold: 1 or 2
  peer,      \* the locals of the other process while it is not running
  fileBy,    \* the process that wrote seen.json last, 0 when neither has
  \* ---- the scorer on its own (SpecScore) ----
  title,     \* token sequence of the title under test
  stage,     \* "idle", "in", "scored"
  res        \* [score, qty] as returned for `title`

vars == << file, secrets, pc, seen, alerts, urlIdx, left, sendIdx, run,
           loaded, fetched, failed, pool, saveRes, sent, scoreCalls, unmarked,
           repeated, insOrder,
           prevFetched, prevSaveRes, me, peer, fileBy, title, stage, res >>

-----------------------------------------------------------------------------
(* Characters and Python's str.lower() on ASCII.                           *)

Digits == {"0", "1", "2", "3", "4", "5", "6", "7", "8", "9"}

LowerLetters ==
  {"a", "b", "c", "d", "e", "f", "g", "h", "i", "j", "k", "l", "m",
   "n", "o", "p", "q", "r", "s", "t", "u", "v", "w", "x", "y", "z"}

UpperToLower ==
  [c \in {"A", "B", "C", "D", "E", "F", "G", "H", "I", "J", "K", "L", "M",
          "N", "O", "P", "Q", "R", "S", "T", "U", "V", "W", "X", "Y", "Z"} |->
     CASE c = "A" -> "a" [] c = "B" -> "b" [] c = "C" -> "c" [] c = "D" -> "d"
       [] c = "E" -> "e" [] c = "F" -> "f" [] c = "G" -> "g" [] c = "H" -> "h"
       [] c = "I" -> "i" [] c = "J" -> "j" [] c = "K" -> "k" [] c = "L" -> "l"
       [] c = "M" -> "m" [] c = "N" -> "n" [] c = "O" -> "o" [] c = "P" -> "p"
       [] c = "Q" -> "q" [] c = "R" -> "r" [] c = "S" -> "s" [] c = "T" -> "t"
       [] c = "U" -> "u" [] c = "V" -> "v" [] c = "W" -> "w" [] c = "X" -> "x"
       [] c = "Y" -> "y" [] c = "Z" -> "z"]

lower(s) ==
  [i \in 1..Len(s) |-> IF s[i] \in DOMAIN UpperToLower THEN UpperToLower[s[i]] ELSE s[i]]

\* \w of the re module (titles are lowercased before any pattern is applied)
WordChars == LowerLetters \cup Digits \cup DOMAIN UpperToLower \cup {"_"}
IsWordChar(c) == c \in WordChars

\* \s of the re module
IsSpace(c) == c \in {" ", "\t"}

DigitVal(c) ==
  CASE c = "0" -> 0 [] c = "1" -> 1 [] c = "2" -> 2 [] c = "3" -> 3 [] c = "4" -> 4
    [] c = "5" -> 5 [] c = "6" -> 6 [] c = "7" -> 7 [] c = "8" -> 8 [] c = "9" -> 9

\* int() of the k digits of t that start at i
RECURSIVE IntAt(_, _, _)
IntAt(t, i, k) ==
  IF k = 0 THEN 0 ELSE 10 * IntAt(t, i, k - 1) + DigitVal(t[i + k - 1])

-----------------------------------------------------------------------------
(* The keyword tables of the source.                                       *)

BLOCKLIST ==
  << <<"j", "u", "n", "k">>,
     <<"s", "p", "a", "r", "e", "s">>,
     <<"b", "r", "o", "k", "e", "n">>,
     <<"r", "e", "p", "a", "i", "r">>,
     <<"p", "a", "r", "t", "s", " ", "o", "n", "l", "y">>,
     <<"a", "c", "c", "e", "s", "s", "o", "r", "i", "e", "s", " ", "o", "n", "l", "y">>,
     <<"f", "o", "r", " ", "s", "p", "a", "r", "e", "s">> >>

BRANDS ==
  << <<"n", "i", "k", "o", "n">>,
     <<"c", "a", "n", "o", "n">>,
     <<"o", "l", "y", "m", "p", "u", "s">>,
     <<"p", "e", "n", "t", "a", "x">>,
     <<"k", "o", "n", "i", "c", "a">>,
     <<"m", "i", "n", "o", "l", "t", "a">>,
     <<"s", "o", "n", "y">>,
     <<"p", "a", "n", "a", "s", "o", "n", "i", "c">>,
     <<"f", "u", "j", "i", "f", "i", "l", "m">>,
     <<"r", "i", "c", "o", "h">>,
     <<"c", "a", "s", "i", "o">>,
     <<"k", "o", "d", "a", "k">>,
     <<"s", "a", "m", "s", "u", "n", "g">>,
     <<"j", "v", "c">>,
     <<"t", "o", "s", "h", "i", "b", "a">>,
     <<"v", "i", "v", "i", "t", "a", "r">>,
     <<"p", "o", "l", "a", "r", "o", "i", "d">> >>

UK_POSITIVE_HINTS ==
  << <<"j", "o", "b", " ", "l", "o", "t">>,
     <<"u", "n", "t", "e", "s", "t", "e", "d">>,
     <<"e", "s", "t", "a", "t", "e">>,
     <<"h", "o", "u", "s", "e", " ", "c", "l", "e", "a", "r", "a", "n", "c", "e">>,
     <<"l", "o", "f", "t", " ", "f", "i", "n", "d">>,
     <<"g", "a", "r", "a", "g", "e", " ", "f", "i", "n", "d">>,
     <<"c", "h", "a", "r", "i", "t", "y">>,
     <<"v", "i", "n", "t", "a", "g", "e">>,
     <<"o", "l", "d", " ", "c", "a", "m", "e", "r", "a">>,
     <<"o", "l", "d", " ", "c", "a", "m", "e", "r", "a", "s">>,
     <<"f", "i", "l", "m", " ", "c", "a", "m", "e", "r", "a">>,
     <<"f", "i", "l", "m", " ", "c", "a", "m", "e", "r", "a", "s">>,
     <<"d", "i", "g", "i", "t", "a", "l", " ", "c", "a", "m", "e", "r", "a">>,
     <<"d", "i", "g", "i", "t", "a", "l", " ", "c", "a", "m", "e", "r", "a", "s">>,
     <<"c", "a", "m", "e", "r", "a", " ", "c", "o", "l", "l", "e", "c", "t", "i", "o", "n">>,
     <<"c", "o", "l", "l", "e", "c", "t", "i", "o", "n", " ", "o", "f", " ", "c", "a", "m", "e", "r", "a", "s">>,
     <<"m", "i", "x", "e", "d", " ", "c", "a", "m", "e", "r", "a", "s">> >>

BIG_LOT_HINTS ==
  << <<"h", "u", "g", "e", " ", "l", "o", "t">>,
     <<"h", "u", "g", "e", " ", "c", "a", "m", "e", "r", "a", " ", "l", "o", "t">>,
     <<"m", "a", "s", "s", "i", "v", "e", " ", "l", "o", "t">>,
     <<"m", "a", "s", "s", "i", "v", "e", " ", "c", "a", "m", "e", "r", "a", " ", "l", "o", "t">>,
     <<"l", "a", "r", "g", "e", " ", "l", "o", "t">>,
     <<"l", "a", "r", "g", "e", " ", "c", "a", "m", "e", "r", "a", " ", "l", "o", "t">>,
     <<"b", "i", "g", " ", "l", "o", "t">>,
     <<"b", "i", "g", " ", "c", "a", "m", "e", "r", "a", " ", "l", "o", "t">>,
     <<"b", "u", "l", "k", " ", "l", "o", "t">>,
     <<"b", "u", "l", "k", " ", "c", "a", "m", "e", "r", "a", "s">>,
     <<"b", "u", "n", "d", "l", "e">>,
     <<"b", "u", "n", "d", "l", "e", " ", "o", "f", " ", "c", "a", "m", "e", "r", "a", "s">>,
     <<"b", "o", "x", " ", "o", "f", " ", "c", "a", "m", "e", "r", "a", "s">>,
     <<"c", "r", "a", "t", "e", " ", "o", "f", " ", "c", "a", "m", "e", "r", "a", "s">>,
     <<"b", "a", "g", " ", "o", "f", " ", "c", "a", "m", "e", "r", "a", "s">> >>

WORD_NUMBERS ==
  << [w |-> <<"o", "n", "e">>, val |-> 1],
     [w |-> <<"t", "w", "o">>, val |-> 2],
     [w |-> <<"t", "h", "r", "e", "e">>, val |-> 3],
     [w |-> <<"f", "o", "u", "r">>, val |-> 4],
     [w |-> <<"f", "i", "v", "e">>, val |-> 5],
     [w |-> <<"s", "i", "x">>, val |-> 6],
     [w |-> <<"s", "e", "v", "e", "n">>, val |-> 7],
     [w |-> <<"e", "i", "g", "h", "t">>, val |-> 8],
     [w |-> <<"n", "i", "n", "e">>, val |-> 9],
     [w |-> <<"t", "e", "n">>, val |-> 10],
     [w |-> <<"e", "l", "e", "v", "e", "n">>, val |-> 11],
     [w |-> <<"t", "w", "e", "l", "v", "e">>, val |-> 12],
     [w |-> <<"t", "h", "i", "r", "t", "e", "e", "n">>, val |-> 13],
     [w |-> <<"f", "o", "u", "r", "t", "e", "e", "n">>, val |-> 14],
     [w |-> <<"f", "i", "f", "t", "e", "e", "n">>, val |-> 15],
     [w |-> <<"s", "i", "x", "t", "e", "e", "n">>, val |-> 16],
     [w |-> <<"s", "e", "v", "e", "n", "t", "e", "e", "n">>, val |-> 17],
     [w |-> <<"e", "i", "g", "h", "t", "e", "e", "n">>, val |-> 18],
     [w |-> <<"n", "i", "n", "e", "t", "e", "e", "n">>, val |-> 19],
     [w |-> <<"t", "w", "e", "n", "t", "y">>, val |-> 20],
     [w |-> <<"t", "h", "i", "r", "t", "y">>, val |-> 30],
     [w |-> <<"f", "o", "r", "t", "y">>, val |-> 40],
     [w |-> <<"f", "i", "f", "t", "y">>, val |-> 50],
     [w |-> <<"s", "i", "x", "t", "y">>, val |-> 60],
     [w |-> <<"s", "e", "v", "e", "n", "t", "y">>, val |-> 70],
     [w |-> <<"e", "i", "g", "h", "t", "y">>, val |-> 80],
     [w |-> <<"n", "i", "n", "e", "t", "y">>, val |-> 90],
     [w |-> <<"h", "u", "n", "d", "r", "e", "d">>, val |-> 100],
     [w |-> <<"h", "u", "n", "d", "r", "e", "d", "s">>, val |-> 100] >>

UNIT_NOUNS ==
  << <<"c", "a", "m", "e", "r", "a">>,
     <<"c", "a", "m", "e", "r", "a", "s">>,
     <<"c", "a", "m", "c", "o", "r", "d", "e", "r">>,
     <<"c", "a", "m", "c", "o", "r", "d", "e", "r", "s">> >>

LOT_PHRASES ==
  << <<"l", "o", "t">>,
     <<"j", "o", "b", " ", "l", "o", "t">>,
     <<"j", "o", "b", "l", "o", "t">>,
     <<"b", "u", "n", "d", "l", "e">>,
     <<"b", "o", "x">>,
     <<"c", "r", "a", "t", "e">>,
     <<"b", "a", "g">> >>

CORE_WORDS ==
  << <<"c", "a", "m", "e", "r", "a">>,
     <<"c", "a", "m", "e", "r", "a", "s">>,
     <<"c", "o", "m", "p", "a", "c", "t">>,
     <<"d", "s", "l", "r">>,
     <<"s", "l", "r">>,
     <<"t", "l", "r">>,
     <<"r", "a", "n", "g", "e", "f", "i", "n", "d", "e", "r">>,
     <<"f", "i", "l", "m">>,
     <<"c", "a", "m", "c", "o", "r", "d", "e", "r">> >>

MODEL_WORDS ==
  << <<"f", "t">>,
     <<"f", "t", "n">>,
     <<"n", "i", "k", "k", "o", "r", "m", "a", "t">>,
     <<"a", "e", "-", "1">>,
     <<"s", "r", "t">>,
     <<"o", "m", "-", "1">>,
     <<"o", "m", "-", "1", "0">>,
     <<"k", "1", "0", "0", "0">>,
     <<"s", "p", "o", "t", "m", "a", "t", "i", "c">> >>

WORKING_WORDS ==
  << <<"s", "h", "u", "t", "t", "e", "r", " ", "w", "o", "r", "k", "i", "n", "g">>,
     <<"s", "h", "u", "t", "t", "e", "r", "s", " ", "w", "o", "r", "k", "i", "n", "g">>,
     <<"t", "e", "s", "t", "e", "d", " ", "w", "o", "r", "k", "i", "n", "g">>,
     <<"f", "u", "l", "l", "y", " ", "w", "o", "r", "k", "i", "n", "g">> >>

S_of == <<"o", "f">>
S_one == <<"o", "n", "e">>
S_hundred == <<"h", "u", "n", "d", "r", "e", "d">>
-----------------------------------------------------------------------------
(* Matching primitives: `w in t`, \b, \s*, \s+, \d{1,4}.                    *)

Range(s) == {s[i] : i \in DOMAIN s}

\* w occurs in t at position i
At(t, i, w) ==
  /\ i >= 1
  /\ i + Len(w) - 1 <= Len(t)
  /\ \A k \in 1..Len(w) : t[i + k - 1] = w[k]

\* Python's `w in t`
Contains(t, w) == \E i \in 1..(Len(t) - Len(w) + 1) : At(t, i, w)

WordAt(t, i) == i >= 1 /\ i <= Len(t) /\ IsWordChar(t[i])

\* \b between t[i-1] and t[i]
Boundary(t, i) == WordAt(t, i - 1) # WordAt(t, i)

\* where \s* started at i stops: the first position that holds no white space
RECURSIVE SkipSpaces(_, _)
SkipSpaces(t, i) ==
  IF i <= Len(t) /\ IsSpace(t[i]) THEN SkipSpaces(t, i + 1) ELSE i

\* how many digits stand at i, i+1, ...
RECURSIVE DigitRun(_, _)
DigitRun(t, i) ==
  IF i <= Len(t) /\ t[i] \in Digits THEN 1 + DigitRun(t, i + 1) ELSE 0

\* (?:camera|cameras|camcorder|camcorders)\b at i
UnitAt(t, i) ==
  \E n \in DOMAIN UNIT_NOUNS :
     At(t, i, UNIT_NOUNS[n]) /\ Boundary(t, i + Len(UNIT_NOUNS[n]))

\* \b(w1|w2|...)\b somewhere in t
HasWord(t, words) ==
  \E n \in DOMAIN words : \E i \in 1..Len(t) :
     At(t, i, words[n]) /\ Boundary(t, i) /\ Boundary(t, i + Len(words[n]))

None == <<>>
Some(n) == <<n>>
ValOf(q) == q[1]

\* the smallest element of a non-empty set of integers
Least(S) == CHOOSE x \in S : \A y \in S : x <= y

-----------------------------------------------------------------------------
(* extract_quantity                                                        *)

\* \s*(?:x\s*)?(?:camera|cameras|camcorder|camcorders)\b from position j.
\* What follows \s* is never white space, so \s* takes every blank there is.
Rest1(t, j) ==
  LET a == SkipSpaces(t, j)
  IN  \/ UnitAt(t, a)
      \/ At(t, a, <<"x">>) /\ UnitAt(t, SkipSpaces(t, a + 1))

\* pattern 1 matches with its first character at i. (\d{1,4}) is greedy and
\* what follows it is no digit, so group 1 is the whole run of digits at i,
\* and there is no match when the run is longer than four.
Pat1At(t, i) ==
  /\ Boundary(t, i)
  /\ DigitRun(t, i) \in 1..4
  /\ Rest1(t, i + DigitRun(t, i))

\* 1) re.search(r"\b(\d{1,4})\s*(?:x\s*)?(?:camera|...)\b", t): the leftmost
\*    match; int(group 1)
Pattern1(t) ==
  LET starts == {i \in 1..Len(t) : Pat1At(t, i)}
  IN  IF starts = {} THEN None
      ELSE LET i == Least(starts) IN Some(IntAt(t, i, DigitRun(t, i)))

\* \s+of\s+ from position j: where the digits must begin, 0 when it fails
OfThen(t, j) ==
  LET a == SkipSpaces(t, j)
      b == SkipSpaces(t, a + Len(S_of))
  IN  IF a > j /\ At(t, a, S_of) /\ b > a + Len(S_of) THEN b ELSE 0

\* (\d{1,4})\b at d: the number of digits, 0 when it fails
DigitsThenBoundary(t, d) ==
  IF d >= 1 /\ DigitRun(t, d) \in 1..4 /\ Boundary(t, d + DigitRun(t, d))
  THEN DigitRun(t, d) ELSE 0

\* the places where group 1 can begin when pattern 2 matches from i
Pat2Caps(t, i) ==
  {d \in {OfThen(t, i + Len(LOT_PHRASES[n])) :
            n \in {m \in DOMAIN LOT_PHRASES : At(t, i, LOT_PHRASES[m])}} :
     Boundary(t, i) /\ DigitsThenBoundary(t, d) > 0}

\* 2) re.search(r"\b(?:lot|job lot|...)\s+of\s+(\d{1,4})\b", t)
Pattern2(t) ==
  LET starts == {i \in 1..Len(t) : Pat2Caps(t, i) # {}}
  IN  IF starts = {} THEN None
      ELSE LET d == CHOOSE d \in Pat2Caps(t, Least(starts)) : TRUE
           IN  Some(IntAt(t, d, DigitsThenBoundary(t, d)))

\* re.search(rf"\b{w}\s+(?:camera|...)\b", t)
WordThenUnit(t, w) ==
  \E i \in 1..Len(t) :
     /\ At(t, i, w)
     /\ Boundary(t, i)
     /\ SkipSpaces(t, i + Len(w)) > i + Len(w)
     /\ UnitAt(t, SkipSpaces(t, i + Len(w)))

\* 3) the first entry of WORD_NUMBERS, in the dict's order, that matches
Pattern3(t) ==
  LET hits == {n \in DOMAIN WORD_NUMBERS : WordThenUnit(t, WORD_NUMBERS[n].w)}
  IN  IF hits = {} THEN None ELSE Some(WORD_NUMBERS[Least(hits)].val)

\* 4) re.search(r"\bone\s+hundred\s+(?:camera|...)\b", t)
Pattern4(t) ==
  IF \E i \in 1..Len(t) :
        LET h == SkipSpaces(t, i + Len(S_one))
            j == SkipSpaces(t, h + Len(S_hundred))
        IN  /\ At(t, i, S_one)
            /\ Boundary(t, i)
            /\ h > i + Len(S_one)
            /\ At(t, h, S_hundred)
            /\ j > h + Len(S_hundred)
            /\ UnitAt(t, j)
  THEN Some(100) ELSE None

\* extract_quantity with the number words tried before the "lot of" phrase
extract_quantity_words_first(ttl) ==
  LET t == lower(ttl)
  IN  IF Pattern1(t) # None THEN Pattern1(t)
      ELSE IF Pattern3(t) # None THEN Pattern3(t)
      ELSE IF Pattern2(t) # None THEN Pattern2(t)
      ELSE Pattern4(t)

extract_quantity(ttl) ==
  LET t == lower(ttl)
  IN  IF Pattern1(t) # None THEN Pattern1(t)
      ELSE IF Pattern2(t) # None THEN Pattern2(t)
      ELSE IF Pattern3(t) # None THEN Pattern3(t)
      ELSE Pattern4(t)

-----------------------------------------------------------------------------
(* hard_reject and score_listing                                           *)

REJECTED == -999

hard_reject(text) ==
  LET t == lower(text) IN \E n \in DOMAIN BLOCKLIST : Contains(t, BLOCKLIST[n])

\* number of entries of a table that occur in t
Hits(t, words) == Cardinality({n \in DOMAIN words : Contains(t, words[n])})

\* lines 198-224: the keyword part of the score
KeywordScore(t) ==
    1 * Hits(t, UK_POSITIVE_HINTS)
  + 2 * Hits(t, BIG_LOT_HINTS)
  + (IF HasWord(t, CORE_WORDS) THEN 2 ELSE 0)
  + (IF \E n \in DOMAIN BRANDS : Contains(t, BRANDS[n]) THEN 2 ELSE 0)
  + (IF HasWord(t, MODEL_WORDS) THEN 2 ELSE 0)
  + (IF HasWord(t, WORKING_WORDS) THEN 2 ELSE 0)

\* the quantity boosts as an if / elif chain in ascending order: the steps
\* at 50 and at 100 are never reached
QuantityBonus_elif(qty) ==
  IF qty = None THEN 0
  ELSE 2 + (IF ValOf(qty) >= 20 THEN 3 ELSE 0)

\* lines 226-235: the quantity boosts
QuantityBonus(qty) ==
  IF qty = None THEN 0
  ELSE 2 + (IF ValOf(qty) >= 20 THEN 3 ELSE 0)
         + (IF ValOf(qty) >= 50 THEN 4 ELSE 0)
         + (IF ValOf(qty) >= 100 THEN 5 ELSE 0)

\* score_listing with the blocklist as a penalty instead of an early return
score_listing_penalty(ttl) ==
  LET t == lower(ttl)
  IN  (IF hard_reject(t) THEN REJECTED ELSE 0)
        + KeywordScore(t) + QuantityBonus(extract_quantity(ttl))

\* lines 192-237
score_listing(ttl) ==
  LET t == lower(ttl)
  IN  IF hard_reject(t) THEN REJECTED
      ELSE KeywordScore(t) + QuantityBonus(extract_quantity(ttl))

-----------------------------------------------------------------------------
(* The scorer on its own: titles are one to MaxTokens phrases of Vocab,    *)
(* joined by single blanks.                                                *)

MaxTokens == 2

Vocab ==
  { <<"B", "R", "O", "K", "E", "N">>,
    <<"S", "p", "a", "r", "e", "s">>,
    <<"n", "i", "k", "o", "n">>,
    <<"j", "o", "b", " ", "l", "o", "t">>,
    <<"f", "i", "l", "m", " ", "c", "a", "m", "e", "r", "a", "s">>,
    <<"c", "a", "m", "e", "r", "a", "s">>,
    <<"1", "0", " ", "c", "a", "m", "e", "r", "a", "s">>,
    <<"5", "0", " ", "c", "a", "m", "e", "r", "a", "s">>,
    <<"1", "0", "0", " ", "c", "a", "m", "e", "r", "a", "s">>,
    <<"l", "o", "t", " ", "o", "f", " ", "3", "0">>,
    <<"f", "o", "r", "t", "y", " ", "c", "a", "m", "e", "r", "a", "s">>,
    <<"t", "w", "o", " ", "c", "a", "m", "e", "r", "a", "s">>,
    <<"2", "0", " ", "x", " ", "c", "a", "m", "c", "o", "r", "d", "e", "r", "s">>,
    <<"1", "2", "3", "4", "5", " ", "c", "a", "m", "e", "r", "a", "s">>,
    <<"b", "u", "n", "d", "l", "e">>,
    <<"o", "m", "-", "1", "0">>,
    <<"s", "h", "u", "t", "t", "e", "r", "s", " ", "w", "o", "r", "k", "i", "n", "g">>,
    <<"o", "n", "e", " ", "h", "u", "n", "d", "r", "e", "d", " ", "c", "a", "m", "e", "r", "a", "s">> }

TokenSeqs == UNION {[1..n -> Vocab] : n \in 1..MaxTokens}

\* " ".join(tokens)
RECURSIVE Flatten(_)
Flatten(toks) ==
  IF Len(toks) = 0 THEN <<>>
  ELSE IF Len(toks) = 1 THEN toks[1]
  ELSE toks[1] \o <<" ">> \o Flatten(Tail(toks))

NoRes == [score |-> 0, qty |-> None]

\* what the program computes from a title: s = score_listing(it["title"]) and
\* qty = extract_quantity(it["title"])
Result(toks) ==
  [score |-> score_listing(Flatten(toks)), qty |-> extract_quantity(Flatten(toks))]

\* Result, tabulated once over the titles (both functions are pure); @@ makes
\* the table explicit
Scored == [toks \in TokenSeqs |-> Result(toks)] @@ <<>>

-----------------------------------------------------------------------------
(* The run pipeline: bounds and the data main() works on.                  *)

NumIds == 3       \* distinct listing ids the sources can return
MaxResults == 2   \* listings one fetch_search call returns at most
MaxRuns == 2      \* runs of main() in a row on the same seen.json

\* len(urls): the source builds 2 categories x 11 terms = 22 URLs; scaled
NumUrls == 2
\* the 2500 of list(seen)[-2500:], scaled
SEEN_CAP == 2
\* the 5 of alerts[:5], scaled
TOP_K == 2
\* `if s >= 3`
THRESHOLD == 3

Ids == 1..NumIds

\* the titles the sources return: hard-rejected, below the threshold, and
\* two that qualify with different scores
T_reject == << <<"B", "R", "O", "K", "E", "N">>,
               <<"1", "0", "0", " ", "c", "a", "m", "e", "r", "a", "s">> >>
T_low == << <<"b", "u", "n", "d", "l", "e">> >>
T_mid == << <<"1", "0", " ", "c", "a", "m", "e", "r", "a", "s">> >>
T_high == << <<"1", "0", "0", " ", "c", "a", "m", "e", "r", "a", "s">> >>
RunTitles == {T_reject, T_low, T_mid, T_high}

\* a listing as fetch_search builds it; price and link do not reach the
\* scorer, and id is the link without its query string
Listings == [id : Ids, title : RunTitles]

\* sequences without repetition over a set, of every length up to n
DistinctSeqs(S, n) ==
  UNION {{s \in [1..k -> S] : \A i, j \in 1..k : i # j => s[i] # s[j]} :
           k \in 0..n}

\* every order in which iterating a Python set can yield its elements
Orders(S) == {s \in DistinctSeqs(S, Cardinality(S)) : Len(s) = Cardinality(S)}

\* s[-n:]
LastN(s, n) == IF Len(s) <= n THEN s ELSE SubSeq(s, Len(s) - n + 1, Len(s))

\* s[:n]
FirstN(s, n) == IF Len(s) <= n THEN s ELSE SubSeq(s, 1, n)

-----------------------------------------------------------------------------
(* seen.json                                                               *)

\* what the file can hold:
\*   absent      no such file
\*   unreadable  open or json.load raises (I/O error, not JSON, cut short)
\*   notobject   JSON, but not an object: .get raises
\*   nokey       an object without "seen_ids"
\*   null        "seen_ids": null, set(None) raises
\*   list        "seen_ids": [ids...]
\*   object      "seen_ids": {id: ..., ...}, set() of a dict is its keys
FailingKinds == {"unreadable", "notobject", "null"}
EmptyKinds == {"absent", "nokey"}
IterableKinds == {"list", "object"}

FileOf(kind, ids) == [kind |-> kind, ids |-> ids]

InitialFiles ==
  {FileOf(k, <<>>) : k \in FailingKinds \cup EmptyKinds}
    \cup {FileOf(k, s) : k \in IterableKinds, s \in DistinctSeqs(Ids, SEEN_CAP)}

\* the list load_seen hands to set(), in order; <<>> when it returns set()
LoadedList(f) == IF f.kind \in IterableKinds THEN f.ids ELSE <<>>

\* how a call ends: it returns a value, or an exception leaves it
Returned(v) == [raised |-> FALSE, value |-> v]
Raised == [raised |-> TRUE, value |-> {}]

\* load_seen without its try / except
load_seen_uncaught(f) ==
  IF f.kind = "absent" THEN Returned({})
  ELSE IF f.kind \in FailingKinds THEN Raised
  ELSE Returned(Range(LoadedList(f)))

\* lines 143-149: no file, set(); anything raised while opening, parsing or
\* building the set is caught, set(); otherwise the set of what "seen_ids"
\* iterates over
load_seen(f) ==
  IF f.kind = "absent" THEN Returned({})
  ELSE IF f.kind \in FailingKinds THEN Returned({})
  ELSE Returned(Range(LoadedList(f)))

\* save_seen without the slice
save_seen_unsliced(order) == FileOf("list", order)

\* json.dump({"seen_ids": list(seen)[-2500:]}, f), list(seen) being `order`
save_seen(order) == FileOf("list", LastN(order, SEEN_CAP))

-----------------------------------------------------------------------------
(* main(): the loop body, the ranking                                      *)

\* x placed behind every element whose score is not smaller
RECURSIVE InsertDesc(_, _)
InsertDesc(x, s) ==
  IF s = <<>> THEN <<x>>
  ELSE IF s[1][1] >= x[1] THEN <<s[1]>> \o InsertDesc(x, Tail(s))
  ELSE <<x>> \o s

\* alerts.sort(key=lambda x: x[0], reverse=True): stable
RECURSIVE SortDesc(_)
SortDesc(s) ==
  IF s = <<>> THEN <<>>
  ELSE InsertDesc(s[Len(s)], SortDesc(SubSeq(s, 1, Len(s) - 1)))

\* the truncation without the sort
Rank_unsorted(as) == FirstN(as, TOP_K)

\* lines 315-316
Rank(as) == FirstN(SortDesc(as), TOP_K)

-----------------------------------------------------------------------------
(* Spec: runs of main()                                                    *)

histVars == << loaded, fetched, failed, pool, saveRes, sent >>
loopVars == << scoreCalls, unmarked, repeated >>
peerVars == << me, peer >>
prevVars == << prevFetched, prevSaveRes >>
scoreVars == << title, stage, res >>

\* no second process
NoPeer == [pc |-> "none"]
Alone == me = 1 /\ peer = NoPeer

\* the scorer's variables while main() runs, and main's while the scorer does
ScoreIdle == title = <<>> /\ stage = "idle" /\ res = NoRes
HistEmpty ==
  /\ loaded = {}
  /\ fetched = {}
  /\ failed = {}
  /\ pool = <<>>
  /\ saveRes = "none"
  /\ sent = <<>>
  /\ scoreCalls = [i \in Ids |-> 0]
  /\ unmarked = {}
  /\ repeated = FALSE
RunIdle ==
  /\ secrets = "unread"
  /\ alerts = <<>>
  /\ urlIdx = 1
  /\ left = 0
  /\ sendIdx = 1
  /\ run = 1
  /\ fileBy = 0
  /\ HistEmpty
  /\ prevFetched = {}
  /\ prevSaveRes = "none"

Init ==
  /\ file \in InitialFiles
  /\ pc = "start"
  /\ seen = {}
  /\ insOrder = <<>>
  /\ RunIdle
  /\ Alone
  /\ ScoreIdle

\* lines 284-290: seen = load_seen(); alerts = []; urls built
Load ==
  /\ pc = "start"
  /\ seen' = load_seen(file).value
  /\ loaded' = load_seen(file).value
  /\ alerts' = <<>>
  /\ urlIdx' = 1
  /\ pc' = IF load_seen(file).raised THEN "crashed" ELSE "fetch"
  /\ UNCHANGED << file, fileBy, secrets, left, sendIdx, run, fetched, failed, pool,
                  saveRes, sent, insOrder >>
  /\ UNCHANGED << loopVars, prevVars, peerVars, scoreVars >>

\* save_seen inside the for of line 292: after every source
AfterSource_save_inside == "save"

\* the for of line 292 moves on: the next source, or save_seen after the last
AfterSource == IF urlIdx + 1 > NumUrls THEN "save" ELSE "fetch"

\* lines 293-297: fetch_search(url) raises; print, continue
FetchFail ==
  /\ pc = "fetch"
  /\ failed' = failed \cup {urlIdx}
  /\ urlIdx' = urlIdx + 1
  /\ pc' = AfterSource
  /\ UNCHANGED << file, fileBy, secrets, seen, alerts, left, sendIdx, run, loaded,
                  fetched, pool, saveRes, sent, insOrder >>
  /\ UNCHANGED << loopVars, prevVars, peerVars, scoreVars >>

\* line 294: fetch_search(url) returns a list of n listings; with n = 0 the
\* loop of line 299 is empty and line 310 sleeps
FetchOk ==
  /\ pc = "fetch"
  /\ \E n \in 0..MaxResults :
        /\ left' = n
        /\ pc' = IF n = 0 THEN AfterSource ELSE "loop"
        /\ urlIdx' = IF n = 0 THEN urlIdx + 1 ELSE urlIdx
  /\ UNCHANGED << file, fileBy, secrets, seen, alerts, sendIdx, run, insOrder >>
  /\ UNCHANGED << histVars, loopVars, prevVars, peerVars, scoreVars >>

\* what the body of the loop works on
Locals == [seen |-> seen, alerts |-> alerts, scoreCalls |-> scoreCalls,
           unmarked |-> unmarked]

\* the call s = score_listing(it["title"]) of line 304, recorded
Called(it, st) ==
  [st EXCEPT !.scoreCalls[it.id] = @ + 1,
             !.unmarked = IF it.id \in st.seen THEN @ ELSE @ \cup {it.id}]

\* the body with the listing scored first and marked seen only when it is
\* appended to the alerts
LoopBody_mark_alerted(it, st) ==
  IF it.id \in st.seen THEN st
  ELSE LET s == Scored[it.title].score
           scored == Called(it, st)
       IN  IF s >= THRESHOLD
           THEN [scored EXCEPT !.seen = @ \cup {it.id},
                               !.alerts = Append(@, <<s, it>>)]
           ELSE scored

\* the body without the test of lines 300-301
LoopBody_no_skip(it, st) ==
  LET marked == [st EXCEPT !.seen = @ \cup {it.id}]
      s == Scored[it.title].score
      scored == Called(it, marked)
  IN  IF s >= THRESHOLD
      THEN [scored EXCEPT !.alerts = Append(@, <<s, it>>)]
      ELSE scored

\* lines 300-308, the body of the loop on the listing `it`:
\*   300-301  if it["id"] in seen: continue
\*   303      seen.add(it["id"])
\*   304      s = score_listing(it["title"])
\*   307-308  if s >= 3: alerts.append((s, it))
LoopBody(it, st) ==
  IF it.id \in st.seen THEN st
  ELSE LET marked == [st EXCEPT !.seen = @ \cup {it.id}]
           s == Scored[it.title].score
           scored == Called(it, marked)
       IN  IF s >= THRESHOLD
           THEN [scored EXCEPT !.alerts = Append(@, <<s, it>>)]
           ELSE scored

\* lines 299-308: one iteration of the loop over `results`, on the listing
\* `it`; after the last one line 310 sleeps and the next source follows
Process ==
  /\ pc = "loop"
  /\ \E it \in Listings :
        LET after == LoopBody(it, Locals)
        IN  /\ fetched' = fetched \cup {it.id}
            /\ repeated' = (repeated \/ it.id \in fetched)
            /\ seen' = after.seen
            /\ alerts' = after.alerts
            /\ scoreCalls' = after.scoreCalls
            /\ unmarked' = after.unmarked
  /\ left' = left - 1
  /\ pc' = IF left = 1 THEN AfterSource ELSE "loop"
  /\ urlIdx' = IF left = 1 THEN urlIdx + 1 ELSE urlIdx
  /\ UNCHANGED << file, fileBy, secrets, sendIdx, run, loaded, failed, pool, saveRes,
                  sent, insOrder >>
  /\ UNCHANGED << prevVars, peerVars, scoreVars >>

\* save_seen reading the file again and writing what it holds together with
\* `seen`
SaveOk_merge ==
  /\ pc = "save"
  /\ \E order \in Orders(seen \cup load_seen(file).value) :
        file' = save_seen(order)
  /\ fileBy' = me
  /\ saveRes' = "ok"
  /\ pool' = alerts
  /\ alerts' = Rank(alerts)
  /\ sendIdx' = 1
  /\ pc' = IF Rank(alerts) = <<>> THEN "done" ELSE "send"
  /\ UNCHANGED << secrets, seen, urlIdx, left, run, loaded, fetched, failed,
                  sent, insOrder >>
  /\ UNCHANGED << loopVars, prevVars, peerVars, scoreVars >>

\* line 312 returns, then lines 315-316: sort, truncate; with no alert the
\* loop of line 318 is empty and line 331 prints the summary
SaveOk ==
  /\ pc = "save"
  /\ \E order \in Orders(seen) : file' = save_seen(order)
  /\ fileBy' = me
  /\ saveRes' = "ok"
  /\ pool' = alerts
  /\ alerts' = Rank(alerts)
  /\ sendIdx' = 1
  /\ pc' = IF Rank(alerts) = <<>> THEN "done" ELSE "send"
  /\ UNCHANGED << secrets, seen, urlIdx, left, run, loaded, fetched, failed,
                  sent, insOrder >>
  /\ UNCHANGED << loopVars, prevVars, peerVars, scoreVars >>

\* line 312 raises: open(..., "w") fails and leaves the file as it was, or
\* json.dump / the closing flush fails after open has truncated the file.
\* Nothing in main() catches it.
SaveRaise ==
  /\ pc = "save"
  /\ \/ file' = file /\ fileBy' = fileBy
     \/ file' = FileOf("unreadable", <<>>) /\ fileBy' = me
  /\ saveRes' = "raised"
  /\ pc' = "crashed"
  /\ UNCHANGED << secrets, seen, alerts, urlIdx, left, sendIdx, run, loaded,
                  fetched, failed, pool, sent, insOrder >>
  /\ UNCHANGED << loopVars, prevVars, peerVars, scoreVars >>

\* what one call of tg_send can do, the secrets being s
\*   "nosecrets"  token or chat id missing: print, return, nothing posted
\*   "200"        posted, status 200
\*   "non200"     posted, other status: print
\*   "raised"     requests.post raises (timeout, connection error)
tg_send(s) == IF s = "set" THEN {"200", "non200", "raised"} ELSE {"nosecrets"}

\* lines 319-328: the text main() builds for the alert a = <<score, listing>>
\* (the price and the link go with the listing's id)
msg(a) == [score |-> a[1], qty |-> Scored[a[2].title].qty,
           title |-> a[2].title, link |-> a[2].id]

\* what one call tg_send(text) writes to standard output, by outcome:
\* line 132 prints a fixed warning, line 137 the status and the response
\* body of the failed post; `text` itself is never printed
tg_print(text, outcome) ==
  IF outcome = "nosecrets"
  THEN << [literal |-> "Telegram secrets missing"] >>
  ELSE IF outcome = "non200"
  THEN << [literal |-> "Telegram error:", status |-> "r.status_code",
           body |-> "r.text"] >>
  ELSE << >>

\* lines 318-331: one iteration of the delivery loop; after the last one
\* the summary is printed
Send ==
  /\ pc = "send"
  /\ \E s \in (IF secrets = "unread" THEN {"set", "missing"} ELSE {secrets}) :
        /\ secrets' = s
        /\ \E outcome \in tg_send(s) :
              /\ sent' = Append(sent, [id |-> alerts[sendIdx][2].id,
                                       score |-> alerts[sendIdx][1],
                                       qty |-> Scored[alerts[sendIdx][2].title].qty,
                                       outcome |-> outcome,
                                       printed |-> tg_print(msg(alerts[sendIdx]),
                                                            outcome)])
              /\ pc' = IF outcome = "raised" THEN "crashed"
                       ELSE IF sendIdx + 1 > Len(alerts) THEN "done" ELSE "send"
  /\ sendIdx' = sendIdx + 1
  /\ UNCHANGED << file, fileBy, seen, alerts, urlIdx, left, run, loaded, fetched,
                  failed, pool, saveRes, insOrder >>
  /\ UNCHANGED << loopVars, prevVars, peerVars, scoreVars >>

\* the next scheduled run: a new process, a new environment
NextRun ==
  /\ pc \in {"done", "crashed"}
  /\ run < MaxRuns
  /\ run' = run + 1
  /\ prevFetched' = fetched
  /\ prevSaveRes' = saveRes
  /\ pc' = "start"
  /\ secrets' = "unread"
  /\ seen' = {}
  /\ alerts' = <<>>
  /\ urlIdx' = 1
  /\ left' = 0
  /\ sendIdx' = 1
  /\ loaded' = {}
  /\ fetched' = {}
  /\ failed' = {}
  /\ pool' = <<>>
  /\ saveRes' = "none"
  /\ sent' = <<>>
  /\ scoreCalls' = [i \in Ids |-> 0]
  /\ unmarked' = {}
  /\ repeated' = FALSE
  /\ fileBy' = 0
  /\ UNCHANGED << file, insOrder >>
  /\ UNCHANGED << peerVars, scoreVars >>

\* one run of main()
NextInRun ==
  \/ Load
  \/ FetchFail
  \/ FetchOk
  \/ Process
  \/ SaveOk
  \/ SaveRaise
  \/ Send

SpecRun == Init /\ [][NextInRun]_vars

\* run after run on the same seen.json
Next ==
  \/ NextInRun
  \/ NextRun

Spec == Init /\ [][Next]_vars

-----------------------------------------------------------------------------
(* SpecOverlap: two processes run main() at the same time on one seen.json; *)
(* nothing in main() locks the file.  The variables of main() hold the      *)
(* locals of the process that is running, `peer` those of the other.        *)

\* the locals of the running process
Proc ==
  [pc |-> pc, secrets |-> secrets, seen |-> seen, alerts |-> alerts,
   urlIdx |-> urlIdx, left |-> left, sendIdx |-> sendIdx, loaded |-> loaded,
   fetched |-> fetched, failed |-> failed, pool |-> pool,
   saveRes |-> saveRes, sent |-> sent, scoreCalls |-> scoreCalls,
   unmarked |-> unmarked, repeated |-> repeated]

\* a process at the entry of main()
Fresh ==
  [pc |-> "start", secrets |-> "unread", seen |-> {}, alerts |-> <<>>,
   urlIdx |-> 1, left |-> 0, sendIdx |-> 1, loaded |-> {},
   fetched |-> {}, failed |-> {}, pool |-> <<>>,
   saveRes |-> "none", sent |-> <<>>, scoreCalls |-> [i \in Ids |-> 0],
   unmarked |-> {}, repeated |-> FALSE]

Ended(p) == p.pc \in {"done", "crashed"}

\* where the scheduler takes the processor from a process: before it reads
\* seen.json, before it writes it, and when it has ended.  The steps in
\* between touch the process's own locals and its own network
\* connections only.
SwitchPoints == {"start", "save", "done", "crashed"}

\* the other process runs on
Switch ==
  /\ pc \in SwitchPoints
  /\ ~Ended(peer)
  /\ peer' = Proc
  /\ me' = 3 - me
  /\ pc' = peer.pc
  /\ secrets' = peer.secrets
  /\ seen' = peer.seen
  /\ alerts' = peer.alerts
  /\ urlIdx' = peer.urlIdx
  /\ left' = peer.left
  /\ sendIdx' = peer.sendIdx
  /\ loaded' = peer.loaded
  /\ fetched' = peer.fetched
  /\ failed' = peer.failed
  /\ pool' = peer.pool
  /\ saveRes' = peer.saveRes
  /\ sent' = peer.sent
  /\ scoreCalls' = peer.scoreCalls
  /\ unmarked' = peer.unmarked
  /\ repeated' = peer.repeated
  /\ UNCHANGED << file, fileBy, run, insOrder >>
  /\ UNCHANGED << prevVars, scoreVars >>

InitOverlap ==
  /\ file \in InitialFiles
  /\ pc = "start"
  /\ seen = {}
  /\ insOrder = <<>>
  /\ RunIdle
  /\ me = 1
  /\ peer = Fresh
  /\ ScoreIdle

\* the runs looked at: every fetch answers, every save and every post
\* succeeds, no source repeats an id, and the listings that qualify carry
\* the title T_high
OverlapScope ==
  /\ ~repeated
  /\ \A k \in DOMAIN alerts : alerts[k][2].title = T_high
  /\ \A k \in DOMAIN sent : sent[k].outcome = "200"

NextOverlap ==
  \/ Load
  \/ FetchOk
  \/ Process /\ OverlapScope'
  \/ SaveOk
  \/ Send /\ OverlapScope'
  \/ Switch

SpecOverlap == InitOverlap /\ [][NextOverlap]_vars

-----------------------------------------------------------------------------
(* SpecSeen: the seen cache on its own, the order of insertion recorded    *)

InitSeen ==
  /\ file = FileOf("absent", <<>>)
  /\ pc = "cache"
  /\ seen = {}
  /\ insOrder = <<>>
  /\ RunIdle
  /\ Alone
  /\ ScoreIdle

\* seen.add(id) of an id that is not in the set
Add ==
  /\ pc = "cache"
  /\ \E id \in Ids \ seen :
        /\ seen' = seen \cup {id}
        /\ insOrder' = Append(insOrder, id)
  /\ saveRes' = "none"
  /\ UNCHANGED << file, fileBy, secrets, pc, alerts, urlIdx, left, sendIdx, run,
                  loaded, fetched, failed, pool, sent >>
  /\ UNCHANGED << loopVars, prevVars, peerVars, scoreVars >>

\* save_seen(seen) returns
Save ==
  /\ pc = "cache"
  /\ \E order \in Orders(seen) : file' = save_seen(order)
  /\ fileBy' = me
  /\ saveRes' = "ok"
  /\ UNCHANGED << secrets, pc, seen, alerts, urlIdx, left, sendIdx, run,
                  loaded, fetched, failed, pool, sent, insOrder >>
  /\ UNCHANGED << loopVars, prevVars, peerVars, scoreVars >>

\* seen = load_seen(): set() inserts the ids in the order of the list
LoadBack ==
  /\ pc = "cache"
  /\ ~load_seen(file).raised
  /\ seen' = load_seen(file).value
  /\ loaded' = load_seen(file).value
  /\ insOrder' = LoadedList(file)
  /\ saveRes' = "none"
  /\ UNCHANGED << file, fileBy, secrets, pc, alerts, urlIdx, left, sendIdx, run,
                  fetched, failed, pool, sent >>
  /\ UNCHANGED << loopVars, prevVars, peerVars, scoreVars >>

NextSeen == Add \/ Save \/ LoadBack

SpecSeen == InitSeen /\ [][NextSeen]_vars

-----------------------------------------------------------------------------
(* SpecScore: the scorer applied to every title of TokenSeqs               *)

InitScore ==
  /\ title \in TokenSeqs
  /\ stage = "in"
  /\ res = NoRes
  /\ file = FileOf("absent", <<>>)
  /\ pc = "score"
  /\ seen = {}
  /\ insOrder = <<>>
  /\ RunIdle
  /\ Alone

runVars == << file, secrets, pc, seen, alerts, urlIdx, left, sendIdx, run,
              insOrder, histVars, loopVars, prevVars, peerVars, fileBy >>

\* s = score_listing(it["title"]); qty = extract_quantity(it["title"])
ScoreTitle ==
  /\ stage = "in"
  /\ res' = Scored[title]
  /\ stage' = "scored"
  /\ UNCHANGED title
  /\ UNCHANGED runVars

NextScore == ScoreTitle

SpecScore == InitScore /\ [][NextScore]_vars

-----------------------------------------------------------------------------
(* The claims                                                              *)

\* C1: in two consecutive runs, the first having saved the store and the
\* second loading it, no id that a successful fetch returned in the first
\* run is in an alert the second run delivers.
C1_DedupAcrossRuns ==
  (run >= 2 /\ prevSaveRes = "ok") =>
     \A k \in DOMAIN sent :
        sent[k].outcome = "200" => sent[k].id \notin prevFetched

\* C2: once more ids than the capacity have been inserted, what load_seen
\* reads back after save_seen is exactly the SEEN_CAP ids inserted last.
C2_FifoEviction ==
  (pc = "cache" /\ saveRes = "ok" /\ Len(insOrder) > SEEN_CAP) =>
     load_seen(file).value = Range(LastN(insOrder, SEEN_CAP))

\* C3: whatever sources fail, a run that has ended went through save_seen
\* to the delivery, the store on disk holds every id a successful fetch
\* returned, nothing but the loaded ids and those is in `seen`, and every
\* alert sent is a listing a successful fetch returned.
C3_PartialFailure ==
  /\ seen \subseteq loaded \cup fetched
  /\ \A k \in DOMAIN sent : sent[k].id \in fetched
  /\ (pc \in {"done", "crashed"} /\ failed # {} /\ fetched # {}) =>
        /\ saveRes = "ok"
        /\ fetched \subseteq load_seen(file).value


\* where x stands in the candidate pool (its entries have distinct ids)
PoolPos(x) == CHOOSE k \in DOMAIN pool : pool[k] = x

\* a is ranked before b: the higher score, or the same score and met earlier
Before(a, b) == a[1] > b[1] \/ (a[1] = b[1] /\ PoolPos(a) < PoolPos(b))

MinOf(a, b) == IF a <= b THEN a ELSE b

\* C4: once ranked, `alerts` holds the first TOP_K of the candidate pool in
\* the order score descending, ties in encounter order; every candidate has
\* an unseen id and a score of at least THRESHOLD, also when fewer than
\* TOP_K qualify; the alerts are handed to tg_send in that order, and all of
\* them when the run reaches its summary.
C4_RankerSelection ==
  /\ \A k \in DOMAIN alerts :
        alerts[k][1] >= THRESHOLD /\ alerts[k][2].id \in fetched \ loaded
  /\ saveRes = "ok" =>
        /\ Len(alerts) = MinOf(TOP_K, Len(pool))
        /\ \A k \in DOMAIN alerts : alerts[k] \in Range(pool)
        /\ \A i, j \in DOMAIN alerts : i < j => Before(alerts[i], alerts[j])
        /\ \A k \in DOMAIN pool :
              pool[k] \notin Range(alerts) =>
                 \A i \in DOMAIN alerts : Before(alerts[i], pool[k])
        /\ Len(sent) = sendIdx - 1
        /\ Len(sent) <= Len(alerts)
        /\ \A k \in DOMAIN sent :
              sent[k].id = alerts[k][2].id /\ sent[k].score = alerts[k][1]
        /\ pc = "done" => Len(sent) = Len(alerts)

\* a run that ended with its summary after ranking three candidates, two of
\* them tied below the third: the first of the tied pair is sent second, the
\* other is cut
C4_Witness ==
  /\ pc = "done"
  /\ Len(pool) = TOP_K + 1
  /\ pool[2][1] > pool[1][1]
  /\ pool[1][1] = pool[Len(pool)][1]
  /\ Len(sent) = TOP_K
  /\ sent[1].id = pool[2][2].id
  /\ sent[TOP_K].id = pool[1][2].id

\* C5: when save_seen raises, the run still goes on to the delivery and to
\* its summary, with `seen` as it was.
C5_SaveFailureNotFatal ==
  saveRes = "raised" => (pc \in {"send", "done"} /\ seen = loaded \cup fetched)

\* C6: whichever sends fail, by a status other than 200 or by an exception,
\* every alert of the batch is attempted once, in rank order, and the run
\* reaches its summary.
C6_SendFailuresIsolated ==
  (saveRes = "ok" /\ pc \in {"done", "crashed"}) =>
     /\ pc = "done"
     /\ Len(sent) = Len(alerts)
     /\ \A k \in DOMAIN sent : sent[k].id = alerts[k][2].id

\* seen.json as load_seen found it: the file is not written before save_seen
Unsaved == pc \in {"fetch", "loop", "save"}

TitleText == lower(Flatten(title))

\* C8: a title that holds a blocklist term, in whatever case and whatever
\* else it holds, scores REJECTED, which is below THRESHOLD, so that line 307
\* keeps the listing out of `alerts`.
C8_HardRejectShortCircuits ==
  (stage = "scored" /\ \E n \in DOMAIN BLOCKLIST : Contains(TitleText, BLOCKLIST[n])) =>
     res.score = REJECTED /\ res.score < THRESHOLD

\* a title with "BROKEN" in it that also names a hundred cameras
C8_Witness ==
  /\ stage = "scored"
  /\ Contains(Flatten(title), <<"B", "R", "O", "K", "E", "N">>)
  /\ res.qty = Some(100)
  /\ res.score = REJECTED

\* C9: the quantity is that of pattern 1 (digits, unit noun) when it matches,
\* else that of pattern 2 ("lot of" digits) when it matches, else that of
\* pattern 3 (number word, unit noun) when it matches; it is absent exactly
\* when none of the three matches.
C9_QuantityPrecedence ==
  stage = "scored" =>
     /\ Pattern1(TitleText) # None => res.qty = Pattern1(TitleText)
     /\ (Pattern1(TitleText) = None /\ Pattern2(TitleText) # None) =>
           res.qty = Pattern2(TitleText)
     /\ (Pattern1(TitleText) = None /\ Pattern2(TitleText) = None
           /\ Pattern3(TitleText) # None) =>
           res.qty = Pattern3(TitleText)
     /\ res.qty = None <=>
           /\ Pattern1(TitleText) = None
           /\ Pattern2(TitleText) = None
           /\ Pattern3(TitleText) = None

\* "lot of 30 forty cameras": the phrase with digits and the number word
\* both match, the digits win
C9_Witness ==
  /\ stage = "scored"
  /\ Pattern1(TitleText) = None
  /\ Pattern2(TitleText) = Some(30)
  /\ Pattern3(TitleText) = Some(40)
  /\ res.qty = Some(30)

\* the keyword part of the score of every title, tabulated
KeywordOf == [toks \in TokenSeqs |-> KeywordScore(lower(Flatten(toks)))] @@ <<>>

\* the titles that differ from `title` in one phrase
Variants == {[title EXCEPT ![i] = tok] : i \in DOMAIN title, tok \in Vocab}

\* the titles that differ from `title` in one phrase, are not hard-rejected
\* and carry the same keyword signals
Peers ==
  {t \in Variants : Scored[t].score # REJECTED /\ KeywordOf[t] = KeywordOf[title]}

\* how many of the steps "a quantity", ">= 20", ">= 50", ">= 100" q has taken
Steps(q) ==
  IF q = None THEN 0
  ELSE 1 + (IF ValOf(q) >= 20 THEN 1 ELSE 0) + (IF ValOf(q) >= 50 THEN 1 ELSE 0)
         + (IF ValOf(q) >= 100 THEN 1 ELSE 0)

QtyLeq(p, q) == p = None \/ (q # None /\ ValOf(p) <= ValOf(q))

\* C10: between two titles that are not hard-rejected and agree in every
\* keyword signal, the score does not fall when the quantity does not, and
\* it rises with every step the quantity takes: absent, present, >= 20,
\* >= 50, >= 100.
C10_QuantityBonusMonotonic ==
  (stage = "scored" /\ res.score # REJECTED) =>
     \A t \in Peers :
        /\ QtyLeq(res.qty, Scored[t].qty) => res.score <= Scored[t].score
        /\ Steps(res.qty) < Steps(Scored[t].qty) => res.score < Scored[t].score

\* a title with 50 cameras that has peers with 100, with 10 and with no
\* quantity, scoring above, below and further below it
C10_Witness ==
  /\ stage = "scored"
  /\ res.score # REJECTED
  /\ res.qty = Some(50)
  /\ \E a, b, c \in Peers :
        /\ Scored[a].qty = Some(100)
        /\ Scored[b].qty = Some(10)
        /\ Scored[c].qty = None
        /\ Scored[a].score > res.score
        /\ res.score > Scored[b].score
        /\ Scored[b].score > Scored[c].score


(***************************************************************************)
(* C11.  Per-category additive weights.                                    *)
(***************************************************************************)
AnyOf(t, words) == \E n \in DOMAIN words : Contains(t, words[n])

\* The score the claim describes: each of the six categories contributes its
\* weight once when at least one of its keywords matches.
CategoryScore(t) ==
    (IF AnyOf(t, UK_POSITIVE_HINTS) THEN 1 ELSE 0)
  + (IF AnyOf(t, BIG_LOT_HINTS) THEN 2 ELSE 0)
  + (IF HasWord(t, CORE_WORDS) THEN 2 ELSE 0)
  + (IF AnyOf(t, BRANDS) THEN 2 ELSE 0)
  + (IF HasWord(t, MODEL_WORDS) THEN 2 ELSE 0)
  + (IF HasWord(t, WORKING_WORDS) THEN 2 ELSE 0)

\* C11: the score of a title that is not hard-rejected is the sum, over the
\* six keyword categories, of the category's weight counted once when any of
\* its keywords matches, plus the quantity bonus.
C11_CategoryWeightsOnce ==
    (stage = "scored" /\ res.score # REJECTED)
        => res.score = CategoryScore(TitleText) + QuantityBonus(res.qty)


(***************************************************************************)
(* C12.  The persisted store is bounded.                                   *)
(***************************************************************************)
NoDuplicate(s) == \A i, j \in DOMAIN s : s[i] = s[j] => i = j

\* C12: the list save_seen has written holds at most SEEN_CAP entries, holds
\* none twice, and every entry is a member of the run's in-memory seen set.
\* The file a run leaves is again a file a run can start from, so the bound
\* carries over from run to run.
C12_StoreBounded ==
    /\ saveRes = "ok" =>
          /\ file.kind = "list"
          /\ Len(file.ids) <= SEEN_CAP
          /\ NoDuplicate(file.ids)
          /\ Range(file.ids) \subseteq seen
    /\ file \in InitialFiles

\* a run that marked more ids than the store holds has saved a full list
C12_Witness ==
    /\ saveRes = "ok"
    /\ Cardinality(seen) > SEEN_CAP
    /\ Len(file.ids) = SEEN_CAP
    /\ loaded # {}
    /\ fetched \ loaded # {}


(***************************************************************************)
(* C13.  Missing delivery credentials.                                     *)
(***************************************************************************)
\* C13: with the credentials missing, no alert is posted, every call of the
\* notifier logs the warning and still reports the text of the alert it was
\* given, and the run goes on to its summary instead of ending in an
\* exception.
C13_MissingCredentials ==
    secrets = "missing" =>
        /\ pc # "crashed"
        /\ \A k \in DOMAIN sent :
              /\ sent[k].outcome = "nosecrets"
              /\ [literal |-> "Telegram secrets missing"] \in Range(sent[k].printed)
              /\ msg(alerts[k]) \in Range(sent[k].printed)


\* the parts of C13 the code does satisfy, for the record of what fails
C13_NoPostWarnedCompletes ==
    secrets = "missing" =>
        /\ pc # "crashed"
        /\ \A k \in DOMAIN sent :
              /\ sent[k].outcome = "nosecrets"
              /\ [literal |-> "Telegram secrets missing"] \in Range(sent[k].printed)


(***************************************************************************)
(* C14.  A listing is marked seen before it is scored.                     *)
(***************************************************************************)
AlertIds(as) == {as[k][2].id : k \in DOMAIN as}

\* C14: every listing a successful fetch returned whose id was not in the
\* seen set has been added to it, and was in it when score_listing was
\* called, whatever the score; a listing whose id was already in the set is
\* neither scored nor put among the alerts; so the set is at all times, and
\* at the end of the source loop, what was loaded together with the ids of
\* all listings the fetches returned.
C14_MarkSeenBeforeScoring ==
    /\ unmarked = {}
    /\ \A id \in fetched \ loaded : id \in seen /\ scoreCalls[id] > 0
    /\ \A id \in loaded : scoreCalls[id] = 0 /\ id \notin AlertIds(alerts)
    /\ \A id \in Ids \ fetched : scoreCalls[id] = 0
    /\ seen = loaded \cup fetched

\* the source loop has ended having met a listing already in the store, one
\* that qualified, and one that did not qualify and is marked all the same
C14_Witness ==
    /\ pc = "save"
    /\ fetched \cap loaded # {}
    /\ alerts # <<>>
    /\ \E id \in fetched \ loaded :
          /\ id \notin AlertIds(alerts)
          /\ id \in seen
          /\ scoreCalls[id] = 1


(***************************************************************************)
(* C17.  No duplicate alerts within a run.                                 *)
(***************************************************************************)
\* C17: within one run an id, however many times the sources return it, is
\* scored at most once, and the ids of the qualifying listings, of the
\* alerts kept and of the alerts handed to the notifier are pairwise
\* distinct.
C17_NoDuplicateAlerts ==
    /\ \A id \in Ids : scoreCalls[id] <= 1
    /\ NoDuplicate([k \in DOMAIN pool |-> pool[k][2].id])
    /\ NoDuplicate([k \in DOMAIN alerts |-> alerts[k][2].id])
    /\ NoDuplicate([k \in DOMAIN sent |-> sent[k].id])

\* the run's one new id came back more than once, qualified, and was handed
\* to the notifier once
C17_Witness ==
    /\ pc = "done"
    /\ repeated
    /\ loaded = {}
    /\ Cardinality(fetched) = 1
    /\ Len(pool) = 1
    /\ Len(sent) = 1
    /\ \A id \in fetched : scoreCalls[id] = 1


(***************************************************************************)
(* C15.  The order of the steps of a run.                                  *)
(***************************************************************************)
AllSourcesProcessed == urlIdx = NumUrls + 1 /\ left = 0

\* where the run stands, read off the state
C15_Order ==
    /\ pc = "start" => fetched = {} /\ failed = {} /\ urlIdx = 1
    /\ pc \in {"fetch", "loop"} => saveRes = "none"
    /\ saveRes # "none" => AllSourcesProcessed
    /\ sent # <<>> => saveRes = "ok" /\ AllSourcesProcessed
    /\ pc \in {"send", "done"} => saveRes = "ok"

\* what a step of the run may do
C15_Once ==
    /\ pc # "start" => loaded' = loaded
    /\ file' # file => pc = "save" /\ saveRes = "none" /\ saveRes' # "none"
    /\ saveRes # "none" => saveRes' = saveRes

\* C15: in a run the store is loaded once, before any fetch; save_seen is
\* called once, after the last source has been processed and before the
\* first alert is handed to the notifier, and the file is written by that
\* call only; no alert is handed over before all sources have been
\* processed.
C15_StepOrder == [] C15_Order /\ [][C15_Once]_vars

\* a run that loaded a store, met a failing and an answering source, saved
\* and then handed an alert to the notifier
C15_Witness ==
    /\ pc = "done"
    /\ loaded # {}
    /\ failed # {}
    /\ fetched # {}
    /\ saveRes = "ok"
    /\ sent # <<>>


(***************************************************************************)
(* C18.  One chance per listing.                                           *)
(***************************************************************************)
\* ids of the qualifying listings of the run that the top-K cut dropped
CutIds == AlertIds(pool) \ AlertIds(alerts)

\* ids of the alerts whose send did not go through
FailedSendIds == {sent[k].id : k \in {j \in DOMAIN sent : sent[j].outcome # "200"}}

\* C18: once the run has saved, a qualifying listing that the top-K cut
\* dropped, or whose send failed, is in the seen set and in the store the
\* run wrote; and a run never alerts an id it loaded from the store, so the
\* listing is not alerted by a later run that loads that store.
C18_OneChance ==
    /\ saveRes = "ok" =>
          \A id \in CutIds \cup FailedSendIds :
              id \in seen /\ id \in load_seen(file).value
    /\ AlertIds(pool) \cap loaded = {}
    /\ AlertIds(alerts) \cap loaded = {}


(***************************************************************************)
(* C16.  Overlapping runs.                                                 *)
(***************************************************************************)
\* the locals of process p, running or not
ProcOf(p) == IF p = me THEN Proc ELSE peer

Delivered(p) == {p.sent[k].id : k \in {j \in DOMAIN p.sent : p.sent[j].outcome = "200"}}

\* C16: nothing keeps two processes running main() on one seen.json apart.
\* Each decides on the set it loaded and on what it fetched itself, never on
\* what the other has written since; and the file holds what the process
\* that saved last had in its own set, whatever the other saved before.
\* (C16_Witness is the execution the claim says exists: both processes
\* deliver an alert for one id, and the file left behind lacks an id that a
\* process marked seen.)
C16_LastWriterWins ==
    /\ \A p \in {1, 2} :
          /\ ProcOf(p).seen = ProcOf(p).loaded \cup ProcOf(p).fetched
          /\ AlertIds(ProcOf(p).alerts) \cap ProcOf(p).loaded = {}
    /\ fileBy # 0 =>
          /\ ProcOf(fileBy).saveRes = "ok"
          /\ file.kind = "list"
          /\ Range(file.ids) \subseteq ProcOf(fileBy).seen
          /\ Len(file.ids) = IF Cardinality(ProcOf(fileBy).seen) <= SEEN_CAP
                             THEN Cardinality(ProcOf(fileBy).seen)
                             ELSE SEEN_CAP

\* both processes have reached their summary having delivered an alert for
\* the same id, and the file lacks an id one of them marked seen although
\* the ids of both together would fit in the store
C16_Witness ==
    /\ pc = "done"
    /\ peer.pc = "done"
    /\ Delivered(Proc) \cap Delivered(peer) # {}
    /\ (seen \cup peer.seen) \ load_seen(file).value # {}
    /\ Cardinality(seen \cup peer.seen) <= SEEN_CAP

=============================================================================
